---- MODULE Spec2Model ----
(***************************************************************************)
(* A model of fastloop_trader.py: configuration resolution, fast-market    *)
(* discovery and selection, expiry parsing, the candle-based momentum      *)
(* signal with its endpoint fallback, and the decision cycle around them.  *)
(*                                                                         *)
(* Text is modelled as a sequence of tokens (words, numbers, clock times), *)
(* a slug as the sequence of its hyphen-separated parts, a datetime as the *)
(* pair (proleptic Gregorian ordinal of the day, second of the day), as    *)
(* Python's datetime keeps it, and a float as an exact fraction.           *)
(***************************************************************************)
EXTENDS Integers, Sequences, FiniteSets, TLC

VARIABLES
    pc,                 \* position of the running operation
    question,           \* argument of _parse_fast_market_end_time
    now,                \* datetime.now(timezone.utc)
    end_time,           \* result of _parse_fast_market_end_time
    listing,            \* what _api_request returns for the market listing
    asset,              \* requested asset
    window,             \* requested window tag
    MIN_TIME_REMAINING, \* module global read by find_best_fast_market
    markets,            \* result of discover_fast_market_markets
    best,               \* result of find_best_fast_market
    source,             \* configured signal source
    idx,                \* index into base_urls of the endpoint tried next
    log,                \* the responses of the endpoints queried so far
    signal,             \* result of get_momentum
    slept,              \* seconds spent in time.sleep
    config_file,        \* state of config.json
    environ,            \* os.environ restricted to the schema's variables
    cfg,                \* result of _load_config
    live,               \* --live flag of the cycle
    intent,             \* the Trade Intent of the cycle
    submitted           \* trade submissions made by the cycle

vars == <<pc, question, now, end_time, listing, asset, window, MIN_TIME_REMAINING,
          markets, best, source, idx, log, signal, slept, config_file, environ,
          cfg, live, intent, submitted>>

parseVars == <<question, end_time>>
marketVars == <<listing, asset, window, MIN_TIME_REMAINING, markets, best>>
signalVars == <<source, idx, log, signal, slept>>
configVars == <<config_file, environ, cfg>>
cycleVars == <<live, intent, submitted>>

\* Python's None, and the marker of a result not computed yet.
None == [k |-> "None"]
Unset == [k |-> "unset"]

(***************************************************************************)
(* Bounds of the model.                                                    *)
(***************************************************************************)
MaxListing == 2
MaxCandles == 2
MaxMarkets == 3

(***************************************************************************)
(* Text tokens.                                                            *)
(***************************************************************************)
W(s) == [k |-> "w", s |-> s, a |-> 0, b |-> 0]
N(n) == [k |-> "n", s |-> "", a |-> n, b |-> 0]
\* a clock time as written: digits ':' digits, then upper-case AM or PM
T(h, m, ap) == [k |-> "t", s |-> ap, a |-> h, b |-> m]
Dash == [k |-> "-", s |-> "-", a |-> 0, b |-> 0]
Comma == [k |-> ",", s |-> ",", a |-> 0, b |-> 0]

\* str.lower() on one word
LowerWord(s) ==
    CASE s = "Bitcoin" -> "bitcoin"
      [] s = "BITCOIN" -> "bitcoin"
      [] s = "Ethereum" -> "ethereum"
      [] s = "Solana" -> "solana"
      [] s = "Up" -> "up"
      [] s = "UP" -> "up"
      [] s = "Or" -> "or"
      [] s = "OR" -> "or"
      [] s = "Down" -> "down"
      [] s = "DOWN" -> "down"
      [] s = "Above" -> "above"
      [] s = "January" -> "january"
      [] s = "February" -> "february"
      [] s = "December" -> "december"
      [] s = "Feb" -> "feb"
      [] s = "ET" -> "et"
      [] s = "AM" -> "am"
      [] s = "PM" -> "pm"
      [] OTHER -> s

\* str.lower() on a text
Lower(q) == [i \in 1..Len(q) |-> [q[i] EXCEPT !.s = LowerWord(q[i].s)]]

\* p in q, for a phrase p of whole words
Contains(q, p) ==
    \E i \in 0..(Len(q) - Len(p)) : \A j \in 1..Len(p) : q[i + j] = p[j]

(***************************************************************************)
(* Calendar arithmetic of datetime.                                        *)
(***************************************************************************)
IsLeap(y) == (y % 4 = 0 /\ y % 100 # 0) \/ y % 400 = 0

DaysInMonth(y, m) ==
    CASE m \in {4, 6, 9, 11} -> 30
      [] m = 2 -> IF IsLeap(y) THEN 29 ELSE 28
      [] OTHER -> 31

DaysBeforeYear(y) ==
    (y - 1) * 365 + (y - 1) \div 4 - (y - 1) \div 100 + (y - 1) \div 400

RECURSIVE DaysBeforeMonth(_, _)
DaysBeforeMonth(y, m) ==
    IF m = 1 THEN 0 ELSE DaysBeforeMonth(y, m - 1) + DaysInMonth(y, m - 1)

\* date(y, m, d).toordinal()
Ordinal(y, m, d) == DaysBeforeYear(y) + DaysBeforeMonth(y, m) + d

\* the year of a datetime
YearOf(dt) ==
    CHOOSE y \in (dt.ord \div 366)..(dt.ord \div 365 + 1) :
        DaysBeforeYear(y) < dt.ord /\ dt.ord <= DaysBeforeYear(y + 1)

DateTime(y, mo, d, h, mi, s) ==
    [ord |-> Ordinal(y, mo, d), sec |-> h * 3600 + mi * 60 + s]

\* dt + timedelta(seconds = n), n of either sign
PlusSeconds(dt, n) ==
    LET t == dt.sec + n
    IN  [ord |-> dt.ord + (t \div 86400), sec |-> t % 86400]

\* (a - b).total_seconds()
TotalSeconds(a, b) == (a.ord - b.ord) * 86400 + (a.sec - b.sec)

(***************************************************************************)
(* _parse_fast_market_end_time                                             *)
(***************************************************************************)
\* %B: a full month name, in any case
MonthNumber(s) ==
    CASE LowerWord(s) = "january" -> 1
      [] LowerWord(s) = "february" -> 2
      [] LowerWord(s) = "march" -> 3
      [] LowerWord(s) = "april" -> 4
      [] LowerWord(s) = "may" -> 5
      [] LowerWord(s) = "june" -> 6
      [] LowerWord(s) = "july" -> 7
      [] LowerWord(s) = "august" -> 8
      [] LowerWord(s) = "september" -> 9
      [] LowerWord(s) = "october" -> 10
      [] LowerWord(s) = "november" -> 11
      [] LowerWord(s) = "december" -> 12
      [] OTHER -> 0

\* \d{1,2}:\d{2}(?:AM|PM)
IsTimeText(t) ==
    t.k = "t" /\ t.a \in 0..99 /\ t.b \in 0..99 /\ t.s \in {"AM", "PM"}

\* where the tail  -\s*(time)\s*ET  matches at token j of q
TailAt(q, j) ==
    /\ j + 2 <= Len(q)
    /\ q[j] = Dash
    /\ IsTimeText(q[j + 1])
    /\ q[j + 2] = W("ET")

\* where  (\w+ \d+),  matches at token i of q and the rest of the pattern
\* matches somewhere after it
HeadAt(q, i) ==
    /\ i + 2 <= Len(q)
    /\ q[i].k = "w"
    /\ q[i + 1].k = "n"
    /\ q[i + 2] = Comma
    /\ \E j \in (i + 3)..Len(q) : TailAt(q, j)

\* Search capturing the first clock time after the comma (the StartTime)
SearchStartTime(q) ==
    IF \E i \in 1..Len(q) : HeadAt(q, i)
    THEN LET i == CHOOSE i \in 1..Len(q) :
                      HeadAt(q, i) /\ \A i2 \in 1..(i - 1) : ~HeadAt(q, i2)
             j == CHOOSE j \in (i + 3)..Len(q) :
                      IsTimeText(q[j]) /\ \A j2 \in (i + 3)..(j - 1) : ~IsTimeText(q[j2])
         IN  [found |-> TRUE, word |-> q[i].s, day |-> q[i + 1].a, time |-> q[j]]
    ELSE [found |-> FALSE]

\* re.search: the leftmost match, its lazy middle as short as possible
Search(q) ==
    IF \E i \in 1..Len(q) : HeadAt(q, i)
    THEN LET i == CHOOSE i \in 1..Len(q) :
                      HeadAt(q, i) /\ \A i2 \in 1..(i - 1) : ~HeadAt(q, i2)
             j == CHOOSE j \in (i + 3)..Len(q) :
                      TailAt(q, j) /\ \A j2 \in (i + 3)..(j - 1) : ~TailAt(q, j2)
         IN  [found |-> TRUE, word |-> q[i].s, day |-> q[i + 1].a, time |-> q[j + 1]]
    ELSE [found |-> FALSE]

\* %I with %p: the hour of a 12-hour clock
Hour24(h, ap) == IF ap = "PM" THEN (h % 12) + 12 ELSE h % 12

\* the hours added to turn Eastern time into UTC
ET_OFFSET_HOURS == 5

\* datetime.strptime(dt_str, "%B %d %Y %I:%M%p"): None stands for ValueError
Strptime(word, day, year, t) ==
    LET mo == MonthNumber(word)
    IN  IF /\ mo # 0
           /\ day >= 1
           /\ day <= DaysInMonth(year, mo)
           /\ t.a \in 1..12
           /\ t.b \in 0..59
        THEN DateTime(year, mo, day, Hour24(t.a, t.s), t.b, 0)
        ELSE None

_parse_fast_market_end_time(q, utcnow) ==
    LET match == Search(q)
    IN  IF ~match.found
        THEN None
        ELSE LET dt == Strptime(match.word, match.day, YearOf(utcnow), match.time)
             IN  IF dt = None
                 THEN None
                 ELSE PlusSeconds(dt, ET_OFFSET_HOURS * 3600)

(***************************************************************************)
(* discover_fast_market_markets                                            *)
(***************************************************************************)
\* a JSON number
Num(v) == [k |-> "num", v |-> v]

\* Python truth of a JSON number or null
Truthy(v) == v # None /\ v.v # 0

\* ASSET_PATTERNS
ASSET_PATTERNS ==
    [BTC |-> <<W("bitcoin"), W("up"), W("or"), W("down")>>,
     ETH |-> <<W("ethereum"), W("up"), W("or"), W("down")>>,
     SOL |-> <<W("solana"), W("up"), W("or"), W("down")>>]

\* ASSET_PATTERNS.get(asset, ASSET_PATTERNS["BTC"]): each list holds one phrase
PatternsFor(a) ==
    IF a \in DOMAIN ASSET_PATTERNS THEN {ASSET_PATTERNS[a]} ELSE {ASSET_PATTERNS["BTC"]}

\* window in slug: the tag anywhere in the slug
MatchesWindowAnywhere(slug, w) == \E i \in 1..Len(slug) : slug[i] = w

\* f"-{window}-" in slug: the tag is a part of the slug between two hyphens
MatchesWindow(slug, w) == \E i \in 2..(Len(slug) - 1) : slug[i] = w

\* int(m.get("fee_rate_bps") or m.get("feeRateBps") or 0)
FeeRateBps(m) ==
    IF Truthy(m.fee_rate_bps) THEN m.fee_rate_bps.v
    ELSE IF Truthy(m.feeRateBps) THEN m.feeRateBps.v
    ELSE 0

\* the condition under which a listing entry is appended to markets; a
\* question that is missing or null is the empty text, as  or ""  makes it
EntryMatches(m, a, w) ==
    LET q == Lower(m.question)
    IN  /\ \E p \in PatternsFor(a) : Contains(q, p)
        /\ MatchesWindow(m.slug, w)
        /\ ~m.closed
        /\ m.slug # <<>>

\* the record appended for a matching entry
MarketOf(m, utcnow) ==
    [question |-> m.question,
     slug |-> m.slug,
     condition_id |-> m.conditionId,
     end_time |-> _parse_fast_market_end_time(m.question, utcnow),
     outcomes |-> m.outcomes,
     outcome_prices |-> m.outcomePrices,
     fee_rate_bps |-> FeeRateBps(m)]

\* result is what _api_request returned: the parsed JSON list, JSON null, or
\* the {"error": ...} dict it builds for every failed request
discover_fast_market_markets(a, w, result, utcnow) ==
    IF result.k = "null" \/ (result.k = "list" /\ result.items = <<>>) \/ result.k = "error"
    THEN <<>>
    ELSE LET Keep(m) == EntryMatches(m, a, w)
             kept == SelectSeq(result.items, Keep)
         IN  [i \in 1..Len(kept) |-> MarketOf(kept[i], utcnow)]

(***************************************************************************)
(* find_best_fast_market                                                   *)
(***************************************************************************)
\* Candidates keeping a market whose remaining lifetime equals the minimum
RECURSIVE CandidatesAtLeast(_, _, _)
CandidatesAtLeast(ms, utcnow, minRemaining) ==
    IF ms = <<>>
    THEN <<>>
    ELSE LET m == Head(ms)
             rest == CandidatesAtLeast(Tail(ms), utcnow, minRemaining)
         IN  IF m.end_time = None
             THEN rest
             ELSE LET remaining == TotalSeconds(m.end_time, utcnow)
                  IN  IF remaining >= minRemaining
                      THEN <<<<remaining, m>>>> \o rest
                      ELSE rest

\* the (remaining, m) pairs appended to candidates, in list order
RECURSIVE Candidates(_, _, _)
Candidates(ms, utcnow, minRemaining) ==
    IF ms = <<>>
    THEN <<>>
    ELSE LET m == Head(ms)
             rest == Candidates(Tail(ms), utcnow, minRemaining)
         IN  IF m.end_time = None
             THEN rest
             ELSE LET remaining == TotalSeconds(m.end_time, utcnow)
                  IN  IF remaining > minRemaining
                      THEN <<<<remaining, m>>>> \o rest
                      ELSE rest

\* insertion for a sort with reverse = True
RECURSIVE InsertByKeyDescending(_, _)
InsertByKeyDescending(sorted, c) ==
    IF sorted = <<>>
    THEN <<c>>
    ELSE IF c[1] > Head(sorted)[1]
         THEN <<c>> \o sorted
         ELSE <<Head(sorted)>> \o InsertByKeyDescending(Tail(sorted), c)

\* list.sort(key = lambda x: x[0]): a stable sort on the first component
RECURSIVE InsertByKey(_, _)
InsertByKey(sorted, c) ==
    IF sorted = <<>>
    THEN <<c>>
    ELSE IF c[1] < Head(sorted)[1]
         THEN <<c>> \o sorted
         ELSE <<Head(sorted)>> \o InsertByKey(Tail(sorted), c)

RECURSIVE SortByKey(_)
SortByKey(cs) ==
    IF cs = <<>>
    THEN <<>>
    ELSE InsertByKey(SortByKey(SubSeq(cs, 1, Len(cs) - 1)), cs[Len(cs)])

find_best_fast_market(ms, utcnow, minRemaining) ==
    LET candidates == Candidates(ms, utcnow, minRemaining)
    IN  IF candidates = <<>>
        THEN None
        ELSE SortByKey(candidates)[1][2]


(***************************************************************************)
(* Floats, kept as exact fractions num/den with den > 0 in lowest terms.   *)
(***************************************************************************)
\* a raised exception, as a value
Err == [k |-> "exception"]

Abs(n) == IF n < 0 THEN -n ELSE n

RECURSIVE Gcd(_, _)
Gcd(a, b) == IF b = 0 THEN a ELSE Gcd(b, a % b)

Rat(n, d) ==
    LET g == Gcd(Abs(n), Abs(d))
        sign == IF d < 0 THEN -1 ELSE 1
    IN  [num |-> sign * (n \div g), den |-> sign * (d \div g)]

\* a / b: ZeroDivisionError when b is zero
RatDiv(a, b) == IF b.num = 0 THEN Err ELSE Rat(a.num * b.den, a.den * b.num)

RatMul(a, b) == Rat(a.num * b.num, a.den * b.den)

RatSub(a, b) == Rat(a.num * b.den - b.num * a.den, a.den * b.den)

RatAdd(a, b) == Rat(a.num * b.den + b.num * a.den, a.den * b.den)

\* float(x) of a candle field: ValueError for text that is no number
Float(x) == IF x = None THEN Err ELSE Rat(x.v, 1)

(***************************************************************************)
(* get_binance_momentum                                                    *)
(***************************************************************************)
\* base_urls
NumEndpoints == 3

\* momentum with a zero opening price reported as no move
MomentumZeroOnZeroOpen(price_now, price_then) ==
    IF price_then.num = 0
    THEN Rat(0, 1)
    ELSE RatMul(RatDiv(RatSub(price_now, price_then), price_then), Rat(100, 1))

\* ((price_now - price_then) / price_then) * 100
Momentum(price_now, price_then) ==
    LET q == RatDiv(RatSub(price_now, price_then), price_then)
    IN  IF q = Err THEN Err ELSE RatMul(q, Rat(100, 1))

\* direction with  >=  for  >
DirectionNonNegative(momentum_pct) == IF momentum_pct.num >= 0 THEN "up" ELSE "down"

\* "up" if momentum_pct > 0 else "down"
Direction(momentum_pct) == IF momentum_pct.num > 0 THEN "up" ELSE "down"

\* latest_volume / avg_volume without the guard
VolumeRatioUnguarded(latest_volume, avg_volume) == RatDiv(latest_volume, avg_volume)

\* latest_volume / avg_volume if avg_volume > 0 else 1.0
VolumeRatio(latest_volume, avg_volume) ==
    IF avg_volume.num > 0 THEN RatDiv(latest_volume, avg_volume) ELSE Rat(1, 1)

RECURSIVE SumRats(_)
\* sum(volumes)
SumRats(xs) == IF xs = <<>> THEN Rat(0, 1) ELSE RatAdd(Head(xs), SumRats(Tail(xs)))

\* the body of the try block from the candles on: the signal, or Err for
\* an exception raised on the way
ComputeSignal(candles) ==
    LET price_then == Float(candles[1].open)
        price_now == Float(candles[Len(candles)].close)
    IN  IF price_then = Err \/ price_now = Err
        THEN Err
        ELSE LET momentum_pct == Momentum(price_now, price_then)
             IN  IF momentum_pct = Err
                 THEN Err
                 ELSE IF \E i \in 1..Len(candles) : Float(candles[i].volume) = Err
                      THEN Err
                      ELSE LET volumes == [i \in 1..Len(candles) |-> Float(candles[i].volume)]
                               avg_volume == RatDiv(SumRats(volumes), Rat(Len(volumes), 1))
                               latest_volume == volumes[Len(volumes)]
                               volume_ratio == VolumeRatio(latest_volume, avg_volume)
                           IN  IF volume_ratio = Err
                               THEN Err
                               ELSE [momentum_pct |-> momentum_pct,
                                     direction |-> Direction(momentum_pct),
                                     price_now |-> price_now,
                                     price_then |-> price_then,
                                     avg_volume |-> avg_volume,
                                     latest_volume |-> latest_volume,
                                     volume_ratio |-> volume_ratio,
                                     candles |-> Len(candles)]

\* one pass of the loop over base_urls for the response resp: return the
\* signal, or continue with the next endpoint after sleeping
Attempt(resp) ==
    IF resp.k = "exception"
    THEN [k |-> "continue", sleep |-> 1]
    ELSE IF resp.status = 429
    THEN [k |-> "continue", sleep |-> 2]
    ELSE IF resp.status >= 400 \/ resp.k = "bad_json"
    THEN [k |-> "continue", sleep |-> 1]
    ELSE IF Len(resp.candles) < 2
    THEN [k |-> "continue", sleep |-> 0]
    ELSE LET s == ComputeSignal(resp.candles)
         IN  IF s = Err
             THEN [k |-> "continue", sleep |-> 1]
             ELSE [k |-> "return", signal |-> s, sleep |-> 0]

(***************************************************************************)
(* get_coingecko_momentum, get_momentum                                    *)
(***************************************************************************)
\* result is what _api_request returned: the {"error": ...} dict, JSON null,
\* or {asset: {"usd": price}} with usd None when the price is missing
get_coingecko_momentum(result) ==
    IF result.k \in {"error", "null"}
    THEN None
    ELSE IF ~Truthy(result.usd)
    THEN None
    ELSE [momentum_pct |-> Rat(0, 1),
          direction |-> "neutral",
          price_now |-> Rat(result.usd.v, 1),
          price_then |-> Rat(result.usd.v, 1),
          avg_volume |-> Rat(0, 1),
          latest_volume |-> Rat(0, 1),
          volume_ratio |-> Rat(1, 1),
          candles |-> 0]

\* get_momentum with the spot-price provider for every other source
SignalProviderDefaulting(src) == IF src = "binance" THEN "binance" ELSE "coingecko"

\* the provider get_momentum calls for a source, "none" when it returns None
SignalProvider(src) ==
    IF src = "binance" THEN "binance"
    ELSE IF src = "coingecko" THEN "coingecko"
    ELSE "none"

(***************************************************************************)
(* _load_config                                                            *)
(***************************************************************************)
\* Python values of the four schema types; a float is n/d
FloatV(n, d) == [t |-> "float", s |-> "", n |-> Rat(n, d).num, d |-> Rat(n, d).den]
IntV(n) == [t |-> "int", s |-> "", n |-> n, d |-> 1]
StrV(s) == [t |-> "str", s |-> s, n |-> 0, d |-> 1]
BoolV(b) == [t |-> "bool", s |-> "", n |-> IF b THEN 1 ELSE 0, d |-> 1]

CONFIG_SCHEMA ==
    [entry_threshold |-> [default |-> FloatV(5, 100), env |-> "SIMMER_SPRINT_ENTRY", type |-> "float"],
     min_momentum_pct |-> [default |-> FloatV(5, 10), env |-> "SIMMER_SPRINT_MOMENTUM", type |-> "float"],
     max_position |-> [default |-> FloatV(5, 1), env |-> "SIMMER_SPRINT_MAX_POSITION", type |-> "float"],
     signal_source |-> [default |-> StrV("binance"), env |-> "SIMMER_SPRINT_SIGNAL", type |-> "str"],
     lookback_minutes |-> [default |-> IntV(5), env |-> "SIMMER_SPRINT_LOOKBACK", type |-> "int"],
     min_time_remaining |-> [default |-> IntV(60), env |-> "SIMMER_SPRINT_MIN_TIME", type |-> "int"],
     asset |-> [default |-> StrV("BTC"), env |-> "SIMMER_SPRINT_ASSET", type |-> "str"],
     window |-> [default |-> StrV("5m"), env |-> "SIMMER_SPRINT_WINDOW", type |-> "str"],
     volume_confidence |-> [default |-> BoolV(TRUE), env |-> "SIMMER_SPRINT_VOL_CONF", type |-> "bool"]]

\* os.environ.get(name): a variable that is not set, or its text
NotSet == [set |-> FALSE, v |-> ""]
SetTo(v) == [set |-> TRUE, v |-> v]

\* val.lower()
LowerText(v) ==
    CASE v \in {"true", "TRUE", "True"} -> "true"
      [] v \in {"yes", "Yes"} -> "yes"
      [] v \in {"no", "NO"} -> "no"
      [] OTHER -> v

\* float(val): Err stands for ValueError
ParseFloat(v) ==
    CASE v = "1" -> FloatV(1, 1)
      [] v = "0" -> FloatV(0, 1)
      [] v = "60" -> FloatV(60, 1)
      [] v = "0.5" -> FloatV(1, 2)
      [] OTHER -> Err

\* int(val): Err stands for ValueError
ParseInt(v) ==
    CASE v = "1" -> IntV(1)
      [] v = "0" -> IntV(0)
      [] v = "60" -> IntV(60)
      [] OTHER -> Err

\* the try block of the env branch: the coerced value, the default on ValueError
Coerce(type_fn, val, default) ==
    CASE type_fn = "bool" -> BoolV(LowerText(val) \in {"true", "1", "yes"})
      [] type_fn = "float" -> IF ParseFloat(val) = Err THEN default ELSE ParseFloat(val)
      [] type_fn = "int" -> IF ParseInt(val) = Err THEN default ELSE ParseInt(val)
      [] OTHER -> StrV(val)

\* file_cfg after the read of config.json: {} when the file is absent, when
\* open fails (IOError) or when its text is no JSON (JSONDecodeError); Err
\* when its bytes are no text (UnicodeDecodeError is neither); else the
\* JSON value read, which need not be an object
ReadConfigFile(file) ==
    CASE file.k \in {"absent", "unreadable", "bad_json"} -> [k |-> "object", map |-> <<>>, items |-> {}]
      [] file.k = "bad_utf8" -> Err
      [] OTHER -> file

\* key in file_cfg: Err stands for TypeError
KeyIn(key, file_cfg) ==
    CASE file_cfg.k = "object" -> IF key \in DOMAIN file_cfg.map THEN "yes" ELSE "no"
      [] file_cfg.k = "array" -> IF key \in file_cfg.items THEN "yes" ELSE "no"
      [] OTHER -> "TypeError"

\* the value the loop stores for key, Err for an exception that escapes
Resolve(key, file_cfg, env) ==
    LET spec == CONFIG_SCHEMA[key]
        has == KeyIn(key, file_cfg)
    IN  IF has = "TypeError"
        THEN Err
        ELSE IF has = "yes"
        THEN IF file_cfg.k = "object" THEN file_cfg.map[key] ELSE Err
        ELSE IF env[spec.env].set /\ env[spec.env].v # ""
        THEN Coerce(spec.type, env[spec.env].v, spec.default)
        ELSE spec.default

_load_config(schema, file, env) ==
    LET file_cfg == ReadConfigFile(file)
    IN  IF file_cfg = Err
        THEN Err
        ELSE IF \E key \in DOMAIN schema : Resolve(key, file_cfg, env) = Err
        THEN Err
        ELSE [key \in DOMAIN schema |-> Resolve(key, file_cfg, env)]

(***************************************************************************)
(* Inputs: questions, listing entries, market lists, clocks.               *)
(***************************************************************************)
Title == <<W("Bitcoin"), W("Up"), W("or"), W("Down")>>

\* "<title> - <Month> <day>, <start>-<end> ET"
MkQuestion(title, month, day, start, end) ==
    title \o <<Dash, W(month), N(day), Comma, start, Dash, end, W("ET")>>

\* the same without the trailing ET
MkQuestionNoZone(title, month, day, start, end) ==
    title \o <<Dash, W(month), N(day), Comma, start, Dash, end>>

\* the same with the end time alone
MkQuestionEndOnly(title, month, day, end) ==
    title \o <<Dash, W(month), N(day), Comma, Dash, end, W("ET")>>

Months == {"January", "February", "february", "Feb", "December"}
Days == {0, 1, 15, 29, 30, 31}

\* the windows a question states, as (start, end)
TimeWindows ==
    {<<T(5, 30, "AM"), T(5, 35, "AM")>>,
     <<T(11, 55, "AM"), T(12, 0, "PM")>>,
     <<T(11, 55, "PM"), T(12, 0, "AM")>>,
     <<T(7, 55, "PM"), T(8, 0, "PM")>>,
     <<T(12, 55, "PM"), T(13, 0, "PM")>>,
     <<T(5, 55, "AM"), T(5, 60, "AM")>>}

Questions ==
    {MkQuestion(Title, mo, d, tw[1], tw[2]) : mo \in Months, d \in Days, tw \in TimeWindows}
    \cup {MkQuestionNoZone(Title, mo, 15, tw[1], tw[2]) : mo \in Months, tw \in TimeWindows}
    \cup {MkQuestionEndOnly(Title, mo, 15, tw[2]) : mo \in Months, tw \in TimeWindows}
    \cup {Title, <<>>}

\* the clocks a parse is run at: a leap year, a common year, the first hours
\* of a UTC year
ParseNows ==
    {DateTime(2024, 2, 15, 10, 33, 0),
     DateTime(2025, 2, 15, 10, 33, 0),
     DateTime(2025, 1, 1, 3, 0, 0)}

Example == MkQuestion(Title, "February", 15, T(5, 30, "AM"), T(5, 35, "AM"))

\* a listing entry of the Gamma API
Entry(q, slug, closed, id) ==
    [question |-> q, slug |-> slug, closed |-> closed, conditionId |-> id,
     outcomes |-> <<"Up", "Down">>, outcomePrices |-> <<50, 50>>,
     fee_rate_bps |-> None, feeRateBps |-> None]

EthTitle == <<W("Ethereum"), W("Up"), W("or"), W("Down")>>
UpperTitle == <<W("Will"), W("BITCOIN"), W("UP"), W("OR"), W("DOWN")>>
AboveTitle == <<W("Bitcoin"), W("Above")>>

\* an open BTC 5m market, one whose question states no zone, an ETH market
BtcEntry == Entry(Example, <<"btc", "updown", "5m", "1">>, FALSE, "0x1")
NoZoneEntry ==
    Entry(MkQuestionNoZone(Title, "February", 15, T(5, 30, "AM"), T(5, 35, "AM")),
          <<"btc", "updown", "5m", "6">>, FALSE, "0x6")
EthEntry ==
    Entry(MkQuestion(EthTitle, "February", 15, T(5, 30, "AM"), T(5, 35, "AM")),
          <<"eth", "updown", "5m", "5">>, FALSE, "0x5")

Entries ==
    {BtcEntry, NoZoneEntry, EthEntry,
     Entry(MkQuestion(UpperTitle, "February", 15, T(5, 35, "AM"), T(5, 40, "AM")),
           <<"btc", "updown", "5m", "2">>, FALSE, "0x2"),
     Entry(Example, <<"btc", "updown", "5m", "3">>, TRUE, "0x3"),
     Entry(MkQuestion(Title, "February", 15, T(5, 30, "AM"), T(5, 45, "AM")),
           <<"btc", "updown", "15m", "4">>, FALSE, "0x4"),
     Entry(Example, <<"5m", "btc", "updown">>, FALSE, "0x7"),
     Entry(<<>>, <<"btc", "updown", "5m", "8">>, FALSE, "0x8"),
     Entry(MkQuestion(AboveTitle, "February", 15, T(5, 30, "AM"), T(5, 35, "AM")),
           <<"btc", "above", "5m", "9">>, FALSE, "0x9"),
     [Entry(Example, <<"btc", "updown", "5m", "10">>, FALSE, "0x10")
         EXCEPT !.fee_rate_bps = Num(0), !.feeRateBps = Num(100)]}

RECURSIVE SeqsUpTo(_, _)
\* the sequences over S of length at most n
SeqsUpTo(S, n) ==
    IF n = 0
    THEN {<<>>}
    ELSE LET shorter == SeqsUpTo(S, n - 1)
         IN  shorter \cup {Append(q, x) : q \in shorter, x \in S}

Listings ==
    {[k |-> "error"], [k |-> "null"]}
    \cup {[k |-> "list", items |-> items] : items \in SeqsUpTo(Entries, MaxListing)}

\* the Example market expires at 10:35:00Z
DiscoverNows ==
    {DateTime(2025, 2, 15, 10, 34, 0),
     DateTime(2025, 2, 15, 10, 33, 59),
     DateTime(2025, 2, 15, 10, 40, 0)}

SelectNow == DateTime(2025, 2, 15, 23, 59, 30)

\* a discovered market that expires r seconds after SelectNow
Market(id, r) ==
    [question |-> Example, slug |-> <<"btc", "updown", "5m", id>>, condition_id |-> id,
     end_time |-> PlusSeconds(SelectNow, r), outcomes |-> <<"Up", "Down">>,
     outcome_prices |-> <<50, 50>>, fee_rate_bps |-> 0]

SelectMarkets ==
    {Market("a", 30), Market("b", 90), Market("c", 45), Market("d", 60),
     Market("e", 61), Market("f", 90), Market("g", -10),
     [Market("h", 0) EXCEPT !.end_time = None]}

(***************************************************************************)
(* State machine.                                                          *)
(***************************************************************************)
IdleParse == question = <<>> /\ end_time = Unset
IdleMarket ==
    /\ listing = Unset /\ asset = "BTC" /\ window = "5m"
    /\ MIN_TIME_REMAINING = 60 /\ markets = <<>> /\ best = Unset
IdleSignal == source = "binance" /\ idx = 0 /\ log = <<>> /\ signal = Unset /\ slept = 0
IdleConfig == config_file = Unset /\ environ = Unset /\ cfg = Unset
IdleCycle == live = FALSE /\ intent = Unset /\ submitted = <<>>

\* a call of _parse_fast_market_end_time
ParseEndTime ==
    /\ pc = "parse"
    /\ end_time' = _parse_fast_market_end_time(question, now)
    /\ pc' = "parsed"
    /\ UNCHANGED <<question, now, marketVars, signalVars, configVars, cycleVars>>

\* a call of discover_fast_market_markets
Discover ==
    /\ pc = "discover"
    /\ markets' = discover_fast_market_markets(asset, window, listing, now)
    /\ pc' = "select"
    /\ UNCHANGED <<now, listing, asset, window, MIN_TIME_REMAINING, best,
                   parseVars, signalVars, configVars, cycleVars>>

\* a call of find_best_fast_market
FindBest ==
    /\ pc = "select"
    /\ best' = find_best_fast_market(markets, now, MIN_TIME_REMAINING)
    /\ pc' = "selected"
    /\ UNCHANGED <<now, listing, asset, window, MIN_TIME_REMAINING, markets,
                   parseVars, signalVars, configVars, cycleVars>>

\* a kline as Binance returns it: open, close and volume as numeric text,
\* None for text float() rejects
Candle(o, c, v) == [open |-> o, close |-> c, volume |-> v]

CandleSet ==
    {Candle(Num(2), Num(2), Num(0)),
     Candle(Num(3), Num(4), Num(1)),
     Candle(Num(0), Num(1), Num(3)),
     Candle(None, None, None)}

\* what an endpoint answers: requests.get raising, an HTTP status, a body
\* that is no JSON, or a JSON list of klines
Responses ==
    {[k |-> "exception", status |-> 0, candles |-> <<>>],
     [k |-> "http", status |-> 429, candles |-> <<>>],
     [k |-> "http", status |-> 500, candles |-> <<>>],
     [k |-> "bad_json", status |-> 200, candles |-> <<>>]}
    \cup {[k |-> "json", status |-> 200, candles |-> cs] : cs \in SeqsUpTo(CandleSet, MaxCandles)}

CoinGeckoResults ==
    {[k |-> "error", usd |-> None], [k |-> "null", usd |-> None],
     [k |-> "price", usd |-> None], [k |-> "price", usd |-> Num(0)],
     [k |-> "price", usd |-> Num(3)]}

\* get_momentum with source "binance": enter get_binance_momentum
GetMomentumBinance ==
    /\ pc = "fetch"
    /\ SignalProvider(source) = "binance"
    /\ pc' = "binance"
    /\ idx' = 1
    /\ UNCHANGED <<now, source, log, signal, slept, parseVars, marketVars, configVars, cycleVars>>

\* get_momentum with source "coingecko": get_coingecko_momentum
GetMomentumCoinGecko ==
    /\ pc = "fetch"
    /\ SignalProvider(source) = "coingecko"
    /\ \E result \in CoinGeckoResults : signal' = get_coingecko_momentum(result)
    /\ pc' = "got"
    /\ UNCHANGED <<now, source, idx, log, slept, parseVars, marketVars, configVars, cycleVars>>

\* get_momentum with any other source
GetMomentumOther ==
    /\ pc = "fetch"
    /\ SignalProvider(source) = "none"
    /\ signal' = None
    /\ pc' = "got"
    /\ UNCHANGED <<now, source, idx, log, slept, parseVars, marketVars, configVars, cycleVars>>

\* one pass of the loop of get_binance_momentum
BinanceTry ==
    /\ pc = "binance"
    /\ idx <= NumEndpoints
    /\ \E resp \in Responses :
           LET o == Attempt(resp)
           IN  /\ log' = Append(log, resp)
               /\ slept' = slept + o.sleep
               /\ IF o.k = "return"
                  THEN signal' = o.signal /\ pc' = "got" /\ idx' = idx
                  ELSE IF o.k = "continue"
                  THEN signal' = signal /\ pc' = pc /\ idx' = idx + 1
                  ELSE signal' = signal /\ pc' = "raised" /\ idx' = idx
    /\ UNCHANGED <<now, source, parseVars, marketVars, configVars, cycleVars>>

\* the loop of get_binance_momentum ran out of endpoints: return None
BinanceExhausted ==
    /\ pc = "binance"
    /\ idx > NumEndpoints
    /\ signal' = None
    /\ pc' = "got"
    /\ UNCHANGED <<now, source, idx, log, slept, parseVars, marketVars, configVars, cycleVars>>

InitSignal ==
    /\ pc = "fetch"
    /\ source \in {"binance", "coingecko", "kraken"}
    /\ idx = 0 /\ log = <<>> /\ signal = Unset /\ slept = 0
    /\ now = SelectNow
    /\ IdleParse /\ IdleMarket /\ IdleConfig /\ IdleCycle

NextSignal ==
    \/ GetMomentumBinance
    \/ GetMomentumCoinGecko
    \/ GetMomentumOther
    \/ BinanceTry
    \/ BinanceExhausted

SpecSignal == InitSignal /\ [][NextSignal]_vars

EnvNames == {CONFIG_SCHEMA[key].env : key \in DOMAIN CONFIG_SCHEMA}
EnvValues == {"", "true", "TRUE", "Yes", "no", "1", "0", "60", "0.5", "abc", "coingecko"}

\* the process environments: nothing set, or one schema variable set
Environments ==
    {[n \in EnvNames |-> NotSet]}
    \cup {[n \in EnvNames |-> IF n = name THEN SetTo(v) ELSE NotSet] :
             name \in EnvNames, v \in EnvValues}

JsonObject(map) == [k |-> "object", map |-> map, items |-> {}]

\* the states of config.json
ConfigFiles ==
    {[k |-> kind, map |-> <<>>, items |-> {}] : kind \in {"absent", "unreadable", "bad_json", "bad_utf8", "null"}}
    \cup {[k |-> "array", map |-> <<>>, items |-> {}],
          [k |-> "array", map |-> <<>>, items |-> {"asset"}],
          JsonObject(<<>>),
          JsonObject([min_time_remaining |-> IntV(30)]),
          JsonObject([min_time_remaining |-> StrV("30")]),
          JsonObject([signal_source |-> StrV("coingecko")]),
          JsonObject([volume_confidence |-> BoolV(FALSE)]),
          JsonObject([entry_threshold |-> FloatV(1, 10), asset |-> StrV("eth")])}

\* the module-level call  cfg = _load_config(CONFIG_SCHEMA, __file__)
LoadConfig ==
    /\ pc = "load"
    /\ cfg' = _load_config(CONFIG_SCHEMA, config_file, environ)
    /\ pc' = "loaded"
    /\ UNCHANGED <<now, config_file, environ, parseVars, marketVars, signalVars, cycleVars>>

InitConfig ==
    /\ pc = "load"
    /\ config_file \in ConfigFiles
    /\ environ \in Environments
    /\ cfg = Unset
    /\ now = SelectNow
    /\ IdleParse /\ IdleMarket /\ IdleSignal /\ IdleCycle

SpecConfig == InitConfig /\ [][LoadConfig]_vars

(***************************************************************************)
(* The decision cycle (run loop, decision engine, position sizer, trade    *)
(* execution), after sections 4.4 to 4.7 of the specification.             *)
(***************************************************************************)
\* SMART_SIZING_PCT, in percent
SMART_SIZING_PERCENT == 5

\* MAX_POSITION_USD by default, in cents
MaxPositionCents == 500

\* Position Sizer: the cap, or the lesser of the cap and 5% of the balance
\* when smart sizing has a positive balance to work from
PositionSize(maxSize, smartSizing, balance) ==
    IF ~smartSizing \/ balance = None
    THEN maxSize
    ELSE IF balance.v <= 0
    THEN maxSize
    ELSE LET share == (balance.v * SMART_SIZING_PERCENT) \div 100
         IN  IF share < maxSize THEN share ELSE maxSize

\* Decision Engine: buy on "up", sell on anything else
Decide(market, sig, amount) ==
    [market |-> market.slug,
     side |-> IF sig.direction = "up" THEN "buy" ELSE "sell",
     amount |-> amount]

\* the portfolio balances a smart-sizing fetch may return, None for a failure
Balances == {None, Num(0), Num(4000), Num(100000)}

\* cycle step: discover markets; none aborts the cycle
CycleDiscover ==
    /\ pc = "cycle_discover"
    /\ markets' = discover_fast_market_markets(asset, window, listing, now)
    /\ pc' = IF markets' = <<>> THEN "done" ELSE "cycle_select"
    /\ UNCHANGED <<now, listing, asset, window, MIN_TIME_REMAINING, best,
                   parseVars, signalVars, configVars, cycleVars>>

\* cycle step: select the best market; none aborts the cycle
CycleSelect ==
    /\ pc = "cycle_select"
    /\ best' = find_best_fast_market(markets, now, MIN_TIME_REMAINING)
    /\ pc' = IF best' = None THEN "done" ELSE "fetch"
    /\ UNCHANGED <<now, listing, asset, window, MIN_TIME_REMAINING, markets,
                   parseVars, signalVars, configVars, cycleVars>>

\* cycle step: get_momentum has returned and its locals are gone; a null
\* signal aborts the cycle, any other is decided on and sized
CycleDecide ==
    /\ pc = "got"
    /\ log' = <<>>
    /\ idx' = 0
    /\ IF signal = None
       THEN intent' = intent /\ pc' = "done"
       ELSE /\ \E smartSizing \in BOOLEAN, balance \in Balances :
                   intent' = Decide(best, signal,
                                    PositionSize(MaxPositionCents, smartSizing, balance))
            /\ pc' = "execute"
    /\ UNCHANGED <<now, source, signal, slept, live, submitted,
                   parseVars, marketVars, configVars>>

\* cycle step: submit the trade when live, only report it in a dry run
CycleExecute ==
    /\ pc = "execute"
    /\ submitted' = IF live THEN Append(submitted, intent) ELSE submitted
    /\ pc' = "done"
    /\ UNCHANGED <<now, live, intent, parseVars, marketVars, signalVars, configVars>>

CycleListings ==
    {[k |-> "error"], [k |-> "null"]}
    \cup {[k |-> "list", items |-> <<e>>] : e \in {BtcEntry, NoZoneEntry, EthEntry}}

InitCycle ==
    /\ pc = "cycle_discover"
    /\ now \in DiscoverNows
    /\ listing \in CycleListings
    /\ asset = "BTC" /\ window = "5m" /\ MIN_TIME_REMAINING = 60
    /\ markets = <<>> /\ best = Unset
    /\ source \in {"binance", "coingecko", "kraken"}
    /\ idx = 0 /\ log = <<>> /\ signal = Unset /\ slept = 0
    /\ live \in BOOLEAN
    /\ intent = Unset /\ submitted = <<>>
    /\ IdleParse /\ IdleConfig

NextCycle ==
    \/ CycleDiscover
    \/ CycleSelect
    \/ GetMomentumBinance
    \/ GetMomentumCoinGecko
    \/ GetMomentumOther
    \/ BinanceTry
    \/ BinanceExhausted
    \/ CycleDecide
    \/ CycleExecute

SpecCycle == InitCycle /\ [][NextCycle]_vars

InitParse ==
    /\ pc = "parse"
    /\ question \in Questions
    /\ now \in ParseNows
    /\ end_time = Unset
    /\ IdleMarket /\ IdleSignal /\ IdleConfig /\ IdleCycle

SpecParse == InitParse /\ [][ParseEndTime]_vars

InitSelect ==
    /\ pc = "select"
    /\ now = SelectNow
    /\ markets \in SeqsUpTo(SelectMarkets, MaxMarkets)
    /\ MIN_TIME_REMAINING \in {60, 30}
    /\ listing = Unset /\ asset = "BTC" /\ window = "5m" /\ best = Unset
    /\ IdleParse /\ IdleSignal /\ IdleConfig /\ IdleCycle

SpecSelect == InitSelect /\ [][FindBest]_vars

InitDiscover ==
    /\ pc = "discover"
    /\ now \in DiscoverNows
    /\ listing \in Listings
    /\ asset \in {"BTC", "ETH", "DOGE"}
    /\ window \in {"5m", "15m"}
    /\ MIN_TIME_REMAINING = 60
    /\ markets = <<>> /\ best = Unset
    /\ IdleParse /\ IdleSignal /\ IdleConfig /\ IdleCycle

NextDiscover == Discover \/ FindBest

SpecDiscover == InitDiscover /\ [][NextDiscover]_vars


(***************************************************************************)
(* Properties of expiry parsing.                                           *)
(***************************************************************************)
\* the UTC year of the clock, read off the calendar
UtcYear == IF now.ord >= 739252 THEN 2025 ELSE 2024

\* ordinal of the stated day in year y, from the calendar: 0 for no such day
CalendarOrdinal(mo, d, y) ==
    LET jan1 == IF y = 2024 THEN 738886 ELSE 739252
        leap == IF y = 2024 THEN 1 ELSE 0
    IN  CASE mo = "January" /\ d \in 1..31 -> jan1 + d - 1
          [] mo \in {"February", "february"} /\ d \in 1..(28 + leap) -> jan1 + 31 + d - 1
          [] mo = "December" /\ d \in 1..31 -> jan1 + 334 + leap + d - 1
          [] OTHER -> 0

\* seconds after midnight of a valid 12-hour clock time, -1 for an invalid one
ClockSeconds(t) ==
    IF t.a \in 1..12 /\ t.b \in 0..59
    THEN ((IF t.a = 12 THEN 0 ELSE t.a) + (IF t.s = "PM" THEN 12 ELSE 0)) * 3600 + t.b * 60
    ELSE -1

\* the stated day and clock time read as Eastern time five hours behind UTC
EasternInstant(mo, d, t, y) ==
    LET day == CalendarOrdinal(mo, d, y)
        secs == ClockSeconds(t) + 5 * 3600
    IN  IF day = 0 \/ ClockSeconds(t) < 0
        THEN None
        ELSE IF secs >= 86400
             THEN [ord |-> day + 1, sec |-> secs - 86400]
             ELSE [ord |-> day, sec |-> secs]

\* C8: for a question "Month Day, StartTime-EndTime ET" the parse returns the
\* stated month and day in the current UTC year at EndTime plus five hours
\* (the example gives February 15, 10:35:00Z), null for an invalid date or
\* time, and null for a question without the pattern.
C8_EndTimeIsEasternEndPlusFive ==
    pc = "parsed" =>
        /\ \A mo \in Months, d \in Days, tw \in TimeWindows :
               question = MkQuestion(Title, mo, d, tw[1], tw[2])
                   => end_time = EasternInstant(mo, d, tw[2], UtcYear)
        /\ \A mo \in Months, tw \in TimeWindows :
               question = MkQuestionNoZone(Title, mo, 15, tw[1], tw[2]) => end_time = None
        /\ question \in {Title, <<>>} => end_time = None
        /\ question = Example /\ UtcYear = 2025
               => end_time = [ord |-> 739297, sec |-> 10 * 3600 + 35 * 60]

C8_Witness ==
    /\ pc = "parsed"
    /\ question = Example
    /\ UtcYear = 2025
    /\ end_time = [ord |-> 739297, sec |-> 38100]

\* C10: the expiry the parse returns is strictly later than the window's
\* StartTime on the stated date, whatever the window.
C10_ExpiryAfterWindowStart ==
    pc = "parsed" /\ end_time # None =>
        \A mo \in Months, d \in Days, tw \in TimeWindows :
            question = MkQuestion(Title, mo, d, tw[1], tw[2])
                => TotalSeconds(end_time, EasternInstant(mo, d, tw[1], UtcYear)) > 0

(***************************************************************************)
(* Properties of discovery and selection.                                  *)
(***************************************************************************)
Remaining(m) == TotalSeconds(m.end_time, now)
Qualifies(m) == m.end_time # None /\ Remaining(m) > MIN_TIME_REMAINING

ExampleMarkets == <<Market("a", 30), Market("b", 90), Market("c", 45)>>

HasAssetPhrase(q, a) ==
    LET name == CASE a = "BTC" -> "bitcoin" [] a = "ETH" -> "ethereum" [] a = "SOL" -> "solana"
    IN  \E i \in 1..(Len(q) - 3) :
            /\ LowerWord(q[i].s) = name
            /\ LowerWord(q[i + 1].s) = "up"
            /\ LowerWord(q[i + 2].s) = "or"
            /\ LowerWord(q[i + 3].s) = "down"

\* the window tag as a hyphen-delimited part inside the slug
HasWindowTag(slug, w) == \E i \in 1..Len(slug) : slug[i] = w /\ i > 1 /\ i < Len(slug)

MeetsFilter(e) ==
    ~e.closed /\ HasAssetPhrase(e.question, asset) /\ HasWindowTag(e.slug, window)

LastResponse == log[Len(log)]

\* a response that is a fetch failure, a rate limit, a parse failure, short
\* of 2 candles, or whose window has text that is no number or a zero open
EndpointFails(r) ==
    \/ r.k \in {"exception", "bad_json"}
    \/ r.status = 429
    \/ r.status >= 400
    \/ Len(r.candles) < 2
    \/ r.candles[1].open = None
    \/ r.candles[Len(r.candles)].close = None
    \/ \E i \in 1..Len(r.candles) : r.candles[i].volume = None
    \/ r.candles[1].open.v = 0

BinanceReturned == pc = "got" /\ source = "binance"

\* C2: get_binance_momentum never raises; it queries the endpoints in order
\* and stops at the first that answers with at least 2 valid candles, whose
\* signal it returns; it returns null exactly when all three fail; a failed
\* endpoint never yields a signal.
C2_FirstAnsweringEndpointOrNull ==
    /\ pc # "raised"
    /\ Len(log) <= NumEndpoints
    /\ pc = "binance" => Len(log) = idx - 1 /\ \A i \in 1..Len(log) : EndpointFails(log[i])
    /\ BinanceReturned =>
           /\ \A i \in 1..(Len(log) - 1) : EndpointFails(log[i])
           /\ signal = None <=>
                  (Len(log) = NumEndpoints /\ \A i \in 1..Len(log) : EndpointFails(log[i]))
           /\ signal # None =>
                  /\ ~EndpointFails(LastResponse)
                  /\ signal.candles = Len(LastResponse.candles)
                  /\ signal.price_then = [num |-> LastResponse.candles[1].open.v, den |-> 1]
                  /\ signal.price_now =
                         [num |-> LastResponse.candles[signal.candles].close.v, den |-> 1]

C2_Witness ==
    /\ BinanceReturned
    /\ Len(log) = 3
    /\ log[1].status = 429
    /\ Len(log[2].candles) = 2 /\ log[2].candles[1].open = Num(0)
    /\ signal # None
    /\ slept = 3

\* C5: the momentum is (P1 - P0) / P0 * 100 for the oldest open P0 > 0 and
\* the latest close P1; the direction is "up" iff the momentum is strictly
\* positive and "down" otherwise, so P1 = P0 gives "down"; never "neutral".
C5_MomentumAndDirection ==
    BinanceReturned /\ signal # None =>
        LET P0 == LastResponse.candles[1].open.v
            P1 == LastResponse.candles[Len(LastResponse.candles)].close.v
            M == signal.momentum_pct
        IN  /\ M.den > 0
            /\ P0 > 0 => M.num * P0 = (P1 - P0) * 100 * M.den
            /\ signal.direction = "up" <=> M.num > 0
            /\ signal.direction = "down" <=> M.num <= 0
            /\ P0 > 0 /\ P1 = P0 => M.num = 0 /\ signal.direction = "down"
            /\ P0 > 0 /\ P1 > P0 => signal.direction = "up"
            /\ signal.direction # "neutral"

C5_Witness ==
    /\ BinanceReturned
    /\ signal # None
    /\ LastResponse.candles[1].open.v = 2
    /\ LastResponse.candles[Len(LastResponse.candles)].close.v = 2
    /\ signal.momentum_pct = [num |-> 0, den |-> 1]
    /\ signal.direction = "down"

RECURSIVE VolumeTotal(_)
VolumeTotal(cs) == IF cs = <<>> THEN 0 ELSE Head(cs).volume.v + VolumeTotal(Tail(cs))

\* C6: the volume ratio is the latest candle's volume over the window's
\* average volume when the average is positive and exactly 1 when it is 0;
\* a window with no volume at all still yields a signal.
C6_VolumeRatio ==
    /\ BinanceReturned /\ signal # None =>
           LET cs == LastResponse.candles
               total == VolumeTotal(cs)
               R == signal.volume_ratio
           IN  /\ R.den > 0
               /\ total > 0 => R.num * total = cs[Len(cs)].volume.v * Len(cs) * R.den
               /\ total = 0 => R = [num |-> 1, den |-> 1]
    /\ BinanceReturned /\ Len(log) > 0 /\ ~EndpointFails(LastResponse) => signal # None

C6_Witness ==
    /\ BinanceReturned
    /\ signal # None
    /\ VolumeTotal(LastResponse.candles) = 0
    /\ signal.volume_ratio = [num |-> 1, den |-> 1]
    /\ signal.avg_volume = [num |-> 0, den |-> 1]


(***************************************************************************)
(* Properties of configuration loading.                                    *)
(***************************************************************************)
\* the file read as the claim reads it: its object when it holds one, the
\* empty file when it is absent, unreadable or malformed
FileAsObject == IF config_file.k = "object" THEN config_file.map ELSE <<>>

\* the environment value coerced to the schema type, the default when the
\* coercion fails
CoercedEnv(key) ==
    LET spec == CONFIG_SCHEMA[key]
        v == environ[spec.env].v
    IN  CASE spec.type = "bool" -> BoolV(v \in {"true", "TRUE", "Yes", "1"})
          [] spec.type = "str" -> StrV(v)
          [] spec.type = "int" ->
                 IF v \in {"1", "0", "60"}
                 THEN IntV(IF v = "1" THEN 1 ELSE IF v = "0" THEN 0 ELSE 60)
                 ELSE spec.default
          [] spec.type = "float" ->
                 IF v \in {"1", "0", "60"}
                 THEN FloatV(IF v = "1" THEN 1 ELSE IF v = "0" THEN 0 ELSE 60, 1)
                 ELSE IF v = "0.5" THEN FloatV(1, 2) ELSE spec.default

\* the value layered precedence gives key: file, then a non-empty
\* environment value, then the default
Layered(key) ==
    IF key \in DOMAIN FileAsObject
    THEN FileAsObject[key]
    ELSE IF environ[CONFIG_SCHEMA[key].env].set /\ environ[CONFIG_SCHEMA[key].env].v # ""
    THEN CoercedEnv(key)
    ELSE CONFIG_SCHEMA[key].default

\* C7: _load_config never raises and gives every schema parameter the file
\* value if the file holds the key, else the coerced value of its
\* environment variable (the default when coercion fails), else the default;
\* an unreadable or malformed config file counts as an empty file.
C7_LayeredPrecedenceNeverRaises ==
    pc = "loaded" =>
        /\ cfg # Err
        /\ \A key \in DOMAIN CONFIG_SCHEMA : cfg[key] = Layered(key)

\* C7, for the files _load_config tolerates: an absent file, a file that
\* cannot be opened, text that is no JSON, and a JSON object.
C7_HoldsForToleratedFiles ==
    pc = "loaded" /\ config_file.k \in {"absent", "unreadable", "bad_json", "object"} =>
        /\ cfg # Err
        /\ \A key \in DOMAIN CONFIG_SCHEMA : cfg[key] = Layered(key)


(***************************************************************************)
(* Properties of the decision cycle.                                       *)
(***************************************************************************)
\* one of the cycle's three intermediate results is missing
CycleMissing ==
    \/ markets = <<>>
    \/ best \in {None, Unset}
    \/ signal \in {None, Unset}

====
